---- MODULE Spec2Model ----
(***************************************************************************)
(* Model of the rmm free-block registry (free_list), the event Logger and  *)
(* the Manager singleton.                                                  *)
(*                                                                         *)
(*   SpecFL    - one free_list driven by insert / best_fit / erase and by  *)
(*               the split-and-return sequence of an allocation            *)
(*   SpecOrder - two free_lists fed the same blocks in independent orders  *)
(*   SpecLog   - the Logger driven sequentially by record / clear          *)
(*   SpecMgr   - threads calling Manager and Logger operations, with the   *)
(*               two mutexes streams_mutex and log_mutex                   *)
(***************************************************************************)
EXTENDS Integers, Sequences, FiniteSets, TLC

VARIABLES
    \* SpecFL: free_list::blocks, the last call on it, the split-and-return
    \* sequence in progress, and whether a zero-size block was ever inserted
    blocks, op, rt, zeroInserted,
    \* SpecOrder: two free_lists, the blocks still to insert into each, and
    \* the set of blocks both are fed
    flA, flB, todoA, todoB, input,
    \* Logger: the records and the set of live pointers
    events, current_allocations,
    \* Manager: the registered streams, the options, the holder of each mutex
    \* (0: free), each thread's position, the registerStream and record calls
    \* in progress, the options a running finalize() started with, and whether
    \* a finalize() has returned
    registered_streams, options, streams_mutex, log_mutex, pc, reg, rec, fin, finalized,
    \* the text a running to_csv() has written, the last call of an rmm entry
    \* point, the state of the function-local static of getInstance(), and
    \* the pool allocator over the free list
    csv, api, single, pool

flVars == <<blocks, op, rt, zeroInserted>>
orderVars == <<flA, flB, todoA, todoB, input>>
logVars == <<events, current_allocations>>
mgrVars == <<registered_streams, options, streams_mutex, log_mutex, pc, reg, rec, fin, finalized>>
extVars == <<csv, api, single, pool>>
vars == <<flVars, orderVars, logVars, mgrVars, extVars>>

(***************************************************************************)
(* Bounds                                                                  *)
(***************************************************************************)
\* device addresses are 1..MaxAddr; 0 is the null pointer
MaxAddr == 5
\* largest size of a block passed to insert
MaxSize == 3
\* largest request passed to best_fit
MaxReq == 3
\* number of blocks fed to each list in SpecOrder
MaxBlocks == 3
\* length bound of the event log
MaxEvents == 4
\* length bound of the event log in the threaded specification
MaxMgrEvents == 1
\* number of threads calling into the Manager
NumThreads == 2
\* created streams are 1..MaxStream; 0 is the null stream
MaxStream == 1
\* pointers passed to Logger::record are 1..MaxPtr
MaxPtr == 2

NullPtr == 0

Addrs == 1..MaxAddr

\* every block [ptr, ptr+size) inside the address space; size 0 is allowed
\* (size is a non-negative byte count)
AllBlocks == { [ptr |-> p, size |-> s] : p \in Addrs, s \in 0..MaxSize }

Blocks == { b \in AllBlocks : b.ptr + b.size <= MaxAddr + 1 }

(***************************************************************************)
(* block                                                                   *)
(***************************************************************************)
\* block_t{} : the "not found" sentinel
NoBlock == [ptr |-> NullPtr, size |-> 0]

\* operator< : ordering by address
block_less(a, b) == a.ptr < b.ptr

is_contiguous_before(a, b) == a.ptr + a.size = b.ptr

fits(b, sz) == sz <= b.size

is_better_fit(b, sz, other) ==
    fits(b, sz) /\ (b.size < other.size \/ other.size < sz)

\* merge: the receiver grows over `other` and the grown block is the result
merge(a, b) == [ptr |-> a.ptr, size |-> a.size + b.size]

(***************************************************************************)
(* std::list helpers                                                       *)
(***************************************************************************)
\* emplace that ignores the position and appends
list_emplace_back(list, pos, b) == list \o <<b>>

\* blocks.emplace(pos, b): insert before position pos (pos = Len+1 is end())
list_emplace(list, pos, b) ==
    SubSeq(list, 1, pos - 1) \o <<b>> \o SubSeq(list, pos, Len(list))

\* blocks.erase(iter)
list_erase(list, pos) ==
    SubSeq(list, 1, pos - 1) \o SubSeq(list, pos + 1, Len(list))

\* find_next with the comparison the wrong way round (i < b)
find_next_reversed(list, b) ==
    IF \E i \in 1..Len(list) : block_less(list[i], b)
    THEN CHOOSE i \in 1..Len(list) :
            /\ block_less(list[i], b)
            /\ \A j \in 1..(i - 1) : ~block_less(list[j], b)
    ELSE Len(list) + 1

\* std::find_if(begin, end, [&b](i){ return b < i; }); Len+1 stands for end()
find_next(list, b) ==
    IF \E i \in 1..Len(list) : block_less(b, list[i])
    THEN CHOOSE i \in 1..Len(list) :
            /\ block_less(b, list[i])
            /\ \A j \in 1..(i - 1) : ~block_less(b, list[j])
    ELSE Len(list) + 1

(***************************************************************************)
(* free_list::coalesced_emplace / insert                                   *)
(***************************************************************************)
\* coalesced_emplace that never looks at the successor
coalesced_emplace_no_next(list, b) ==
    IF Len(list) = 0
    THEN list_emplace(list, 1, b)
    ELSE
      LET next       == find_next(list, b)
          previous   == IF next = 1 THEN next ELSE next - 1
          merge_prev == is_contiguous_before(list[previous], b)
      IN  IF merge_prev
          THEN [list EXCEPT ![previous] = merge(list[previous], b)]
          ELSE list_emplace(list, next, b)

\* coalesced_emplace whose successor-only case stores b and drops the
\* successor's bytes (*next = b)
coalesced_emplace_next_lost(list, b) ==
    IF Len(list) = 0
    THEN list_emplace(list, 1, b)
    ELSE
      LET next       == find_next(list, b)
          previous   == IF next = 1 THEN next ELSE next - 1
          merge_prev == is_contiguous_before(list[previous], b)
          merge_next == next # Len(list) + 1 /\ is_contiguous_before(b, list[next])
      IN  IF merge_prev /\ merge_next
          THEN list_erase(
                 [list EXCEPT ![previous] = merge(merge(list[previous], b), list[next])],
                 next)
          ELSE IF merge_prev
          THEN [list EXCEPT ![previous] = merge(list[previous], b)]
          ELSE IF merge_next
          THEN [list EXCEPT ![next] = b]
          ELSE list_emplace(list, next, b)

\* coalesced_emplace whose three-way case merges b into the predecessor only
coalesced_emplace_three_way_prev(list, b) ==
    IF Len(list) = 0
    THEN list_emplace(list, 1, b)
    ELSE
      LET next       == find_next(list, b)
          previous   == IF next = 1 THEN next ELSE next - 1
          merge_prev == is_contiguous_before(list[previous], b)
          merge_next == next # Len(list) + 1 /\ is_contiguous_before(b, list[next])
      IN  IF merge_prev
          THEN [list EXCEPT ![previous] = merge(list[previous], b)]
          ELSE IF merge_next
          THEN [list EXCEPT ![next] = merge(b, list[next])]
          ELSE list_emplace(list, next, b)

\* coalesced_emplace whose three-way case forgets blocks.erase(next)
coalesced_emplace_next_kept(list, b) ==
    IF Len(list) = 0
    THEN list_emplace(list, 1, b)
    ELSE
      LET next       == find_next(list, b)
          previous   == IF next = 1 THEN next ELSE next - 1
          merge_prev == is_contiguous_before(list[previous], b)
          merge_next == next # Len(list) + 1 /\ is_contiguous_before(b, list[next])
      IN  IF merge_prev /\ merge_next
          THEN [list EXCEPT ![previous] = merge(merge(list[previous], b), list[next])]
          ELSE IF merge_prev
          THEN [list EXCEPT ![previous] = merge(list[previous], b)]
          ELSE IF merge_next
          THEN [list EXCEPT ![next] = merge(b, list[next])]
          ELSE list_emplace(list, next, b)

coalesced_emplace(list, b) ==
    IF Len(list) = 0
    THEN list_emplace(list, 1, b)
    ELSE
      LET next       == find_next(list, b)
          previous   == IF next = 1 THEN next ELSE next - 1
          merge_prev == is_contiguous_before(list[previous], b)
          merge_next == next # Len(list) + 1 /\ is_contiguous_before(b, list[next])
      IN  IF merge_prev /\ merge_next
          THEN list_erase(
                 [list EXCEPT ![previous] = merge(merge(list[previous], b), list[next])],
                 next)
          ELSE IF merge_prev
          THEN [list EXCEPT ![previous] = merge(list[previous], b)]
          ELSE IF merge_next
          THEN [list EXCEPT ![next] = merge(b, list[next])]
          ELSE list_emplace(list, next, b)

\* insert(block_t b)
insert(list, b) == coalesced_emplace(list, b)

\* insert(first, last): std::for_each over the input range
RECURSIVE insert_range(_, _)
insert_range(list, range) ==
    IF range = <<>> THEN list
    ELSE insert_range(insert(list, Head(range)), Tail(range))

(***************************************************************************)
(* free_list::best_fit                                                     *)
(***************************************************************************)
\* std::min_element with comparator lhs.is_better_fit(size, rhs):
\* the candidate is replaced by a later element only when the later one
\* compares less than it.  0 stands for end() (empty list).
\* a scan that replaces the candidate by every later element the candidate
\* does not compare less than
RECURSIVE min_scan_last_of_ties(_, _, _, _)
min_scan_last_of_ties(list, sz, i, smallest) ==
    IF i > Len(list) THEN smallest
    ELSE IF ~is_better_fit(list[smallest], sz, list[i])
         THEN min_scan_last_of_ties(list, sz, i + 1, i)
         ELSE min_scan_last_of_ties(list, sz, i + 1, smallest)

RECURSIVE min_scan(_, _, _, _)
min_scan(list, sz, i, smallest) ==
    IF i > Len(list) THEN smallest
    ELSE IF is_better_fit(list[i], sz, list[smallest])
         THEN min_scan(list, sz, i + 1, i)
         ELSE min_scan(list, sz, i + 1, smallest)

\* first fit: the first entry that fits, whatever its size
min_element_first_fit(list, sz) ==
    IF Len(list) = 0 THEN 0
    ELSE IF \E i \in 1..Len(list) : fits(list[i], sz)
         THEN CHOOSE i \in 1..Len(list) :
                 fits(list[i], sz) /\ \A j \in 1..(i - 1) : ~fits(list[j], sz)
         ELSE 1

min_element(list, sz) ==
    IF Len(list) = 0 THEN 0 ELSE min_scan(list, sz, 2, 1)

\* best_fit without the fits(size) test on the chosen entry
best_fit_unchecked(list, sz) ==
    LET iter == min_element(list, sz)
    IN  IF iter # 0
        THEN [found |-> list[iter], blocks |-> list_erase(list, iter)]
        ELSE [found |-> NoBlock, blocks |-> list]

\* best_fit that returns the chosen entry and leaves it in the list
best_fit_not_erased(list, sz) ==
    LET iter == min_element(list, sz)
    IN  IF iter # 0 /\ fits(list[iter], sz)
        THEN [found |-> list[iter], blocks |-> list]
        ELSE [found |-> NoBlock, blocks |-> list]

\* the pair (returned block, list afterwards)
best_fit(list, sz) ==
    LET iter == min_element(list, sz)
    IN  IF iter # 0 /\ fits(list[iter], sz)
        THEN [found |-> list[iter], blocks |-> list_erase(list, iter)]
        ELSE [found |-> NoBlock, blocks |-> list]

(***************************************************************************)
(* SpecFL: one free_list                                                   *)
(***************************************************************************)
\* two blocks share at least one byte (for an empty block: it lies strictly
\* inside the other)
Overlaps(a, b) == a.ptr < b.ptr + b.size /\ b.ptr < a.ptr + a.size

\* b shares no byte with any entry of the list
Disjoint(list, b) == \A i \in 1..Len(list) : ~Overlaps(b, list[i])

NoOp == [name |-> "none", arg |-> NoBlock, size |-> 0, found |-> NoBlock, pre |-> <<>>]

RtIdle == [phase |-> 0, X |-> 0, blk |-> NoBlock, saved |-> <<>>]

\* no split-and-return sequence is in progress
RtFree == rt.phase \in {0, 3}

FLInit ==
    /\ blocks = <<>>
    /\ op = NoOp
    /\ rt = RtIdle
    /\ zeroInserted = FALSE

\* free_list::insert(b) for a block that overlaps no free block
Insert(b) ==
    /\ RtFree
    /\ UNCHANGED <<orderVars, logVars, mgrVars, extVars>>
    /\ Disjoint(blocks, b)
    /\ blocks' = insert(blocks, b)
    /\ op' = [name |-> "insert", arg |-> b, size |-> 0, found |-> NoBlock, pre |-> blocks]
    /\ rt' = RtIdle
    /\ zeroInserted' = (zeroInserted \/ b.size = 0)

\* free_list::best_fit(sz)
BestFit(sz) ==
    /\ RtFree
    /\ UNCHANGED <<orderVars, logVars, mgrVars, extVars>>
    /\ LET r == best_fit(blocks, sz)
       IN  /\ blocks' = r.blocks
           /\ op' = [name |-> "best_fit", arg |-> NoBlock, size |-> sz,
                     found |-> r.found, pre |-> blocks]
    /\ rt' = RtIdle
    /\ UNCHANGED zeroInserted

\* free_list::erase(iter) for an iterator into this list
Erase(i) ==
    /\ RtFree
    /\ UNCHANGED <<orderVars, logVars, mgrVars, extVars>>
    /\ i \in 1..Len(blocks)
    /\ blocks' = list_erase(blocks, i)
    /\ op' = [name |-> "erase", arg |-> blocks[i], size |-> 0, found |-> NoBlock,
              pre |-> blocks]
    /\ rt' = RtIdle
    /\ UNCHANGED zeroInserted

\* allocation of X bytes served by a block of size X + Y, Y > 0: best_fit(X)
SplitAlloc(X) ==
    /\ RtFree
    /\ UNCHANGED <<orderVars, logVars, mgrVars, extVars>>
    /\ LET r == best_fit(blocks, X)
       IN  /\ r.found.size > X
           /\ blocks' = r.blocks
           /\ op' = [name |-> "best_fit", arg |-> NoBlock, size |-> X,
                     found |-> r.found, pre |-> blocks]
           /\ rt' = [phase |-> 1, X |-> X, blk |-> r.found, saved |-> blocks]
    /\ UNCHANGED zeroInserted

\* ... the remainder [addr+X, addr+X+Y) goes back into the list
SplitRemainder ==
    /\ rt.phase = 1
    /\ UNCHANGED <<orderVars, logVars, mgrVars, extVars>>
    /\ LET b == [ptr |-> rt.blk.ptr + rt.X, size |-> rt.blk.size - rt.X]
       IN  /\ blocks' = insert(blocks, b)
           /\ op' = [name |-> "insert", arg |-> b, size |-> 0, found |-> NoBlock,
                     pre |-> blocks]
    /\ rt' = [rt EXCEPT !.phase = 2]
    /\ UNCHANGED zeroInserted

\* ... and the allocated prefix [addr, addr+X) is freed at once
SplitFree ==
    /\ rt.phase = 2
    /\ UNCHANGED <<orderVars, logVars, mgrVars, extVars>>
    /\ LET b == [ptr |-> rt.blk.ptr, size |-> rt.X]
       IN  /\ blocks' = insert(blocks, b)
           /\ op' = [name |-> "insert", arg |-> b, size |-> 0, found |-> NoBlock,
                     pre |-> blocks]
           /\ zeroInserted' = (zeroInserted \/ b.size = 0)
    /\ rt' = [rt EXCEPT !.phase = 3]

FLNext ==
    \/ \E b \in Blocks : Insert(b)
    \/ \E sz \in 0..MaxReq : BestFit(sz)
    \/ \E i \in DOMAIN blocks : Erase(i)
    \/ \E X \in 0..MaxReq : SplitAlloc(X)
    \/ SplitRemainder
    \/ SplitFree

(***************************************************************************)
(* SpecOrder: the same blocks inserted into two lists in any two orders    *)
(***************************************************************************)
PairwiseDisjoint(S) == \A a, b \in S : a # b => ~Overlaps(a, b)

\* every ordering of the set S as a sequence
Orderings(S) ==
    { q \in [1..Cardinality(S) -> S] : \A i, j \in 1..Cardinality(S) : i # j => q[i] # q[j] }

\* SpecOrder is not running: nothing to insert
OrderIdle ==
    /\ input = {}
    /\ todoA = {}
    /\ todoB = {}
    /\ flA = <<>>
    /\ flB = <<>>

OrderInit ==
    /\ input \in { S \in SUBSET Blocks : Cardinality(S) <= MaxBlocks /\ PairwiseDisjoint(S) }
    /\ todoA = input
    /\ todoB = input
    /\ flA = <<>>
    /\ flB = <<>>

\* insert(b) on the first list
InsertA(b) ==
    /\ b \in todoA
    /\ flA' = insert(flA, b)
    /\ todoA' = todoA \ {b}
    /\ UNCHANGED <<flB, todoB, input, flVars, logVars, mgrVars, extVars>>

\* insert(b) on the second list, once the first list is complete
InsertB(b) ==
    /\ todoA = {}
    /\ b \in todoB
    /\ flB' = insert(flB, b)
    /\ todoB' = todoB \ {b}
    /\ UNCHANGED <<flA, todoA, input, flVars, logVars, mgrVars, extVars>>

\* insert(first, last) on the first list, the range in any order
InsertRangeA(range) ==
    /\ todoA # {}
    /\ range \in Orderings(todoA)
    /\ flA' = insert_range(flA, range)
    /\ todoA' = {}
    /\ UNCHANGED <<flB, todoB, input, flVars, logVars, mgrVars, extVars>>

\* insert(first, last) on the second list, the range in any order
InsertRangeB(range) ==
    /\ todoA = {}
    /\ todoB # {}
    /\ range \in Orderings(todoB)
    /\ flB' = insert_range(flB, range)
    /\ todoB' = {}
    /\ UNCHANGED <<flA, todoA, input, flVars, logVars, mgrVars, extVars>>

OrderNext ==
    \/ \E b \in Blocks : InsertA(b)
    \/ \E b \in Blocks : InsertB(b)
    \/ \E range \in Orderings(todoA) : InsertRangeA(range)
    \/ \E range \in Orderings(todoB) : InsertRangeB(range)

(***************************************************************************)
(* Logger                                                                  *)
(***************************************************************************)
MemEvents == {"Alloc", "Realloc", "Free"}

Ptrs == 1..MaxPtr

\* a Free that leaves the pointer in the live set
logger_mutate_no_erase(live, event, ptr) ==
    IF event \in {"Alloc", "Realloc"} THEN live \cup {ptr} ELSE live

\* the live-pointer set after an event: inserted on Alloc/Realloc, removed
\* on Free
logger_mutate(live, event, ptr) ==
    IF event \in {"Alloc", "Realloc"} THEN live \cup {ptr} ELSE live \ {ptr}

\* record that stores the number of records so far as the live count
logger_record_counts_events(log, event, ptr) ==
    LET live == logger_mutate(log.current_allocations, event, ptr)
    IN  [events |-> Append(log.events,
                           [event |-> event, ptr |-> ptr,
                            currentAllocations |-> Len(log.events) + 1]),
         current_allocations |-> live]

\* Logger::record: the live-pointer set is updated for the event and the
\* record appended carries the number of live pointers
logger_record(log, event, ptr) ==
    LET live == logger_mutate(log.current_allocations, event, ptr)
    IN  [events |-> Append(log.events,
                           [event |-> event, ptr |-> ptr,
                            currentAllocations |-> Cardinality(live)]),
         current_allocations |-> live]

\* Logger::clear: drops all records and resets the live-pointer set
logger_clear(log) == [events |-> <<>>, current_allocations |-> {}]

TheLog == [events |-> events, current_allocations |-> current_allocations]

LogInit ==
    /\ events = <<>>
    /\ current_allocations = {}

(***************************************************************************)
(* Manager                                                                 *)
(***************************************************************************)
CudaDefaultAllocation == 0
PoolAllocation == 1
CudaManagedMemory == 2

\* Manager() : options({ CudaDefaultAllocation, false, 0 })
DefaultOptions ==
    [allocation_mode |-> CudaDefaultAllocation, managed_memory |-> FALSE,
     initial_pool_size |-> 0]

OptionValues ==
    { [allocation_mode |-> m, managed_memory |-> FALSE, initial_pool_size |-> 0] :
        m \in { CudaDefaultAllocation, PoolAllocation, CudaManagedMemory,
                PoolAllocation + CudaManagedMemory } }

Threads == 1..NumThreads

NoThread == 0

\* stream handles: the null stream, the created streams, and a handle that
\* is no stream
ValidStreams == 0..MaxStream

StreamHandles == 0..(MaxStream + 1)

\* registerStream that reports an already registered stream as an error
registerStream_rejects_known(streams, stream) ==
    IF stream \in ValidStreams /\ stream \notin streams
    THEN [ret |-> "RMM_SUCCESS", streams |-> streams \cup {stream}]
    ELSE [ret |-> "RMM_ERROR_INVALID_ARGUMENT", streams |-> streams]

\* Manager::registerStream: the outcome and the registration set afterwards
registerStream(streams, stream) ==
    IF stream \in ValidStreams
    THEN [ret |-> "RMM_SUCCESS", streams |-> streams \cup {stream}]
    ELSE [ret |-> "RMM_ERROR_INVALID_ARGUMENT", streams |-> streams]

\* finalize that forgets registered_streams.clear()
finalize_streams_kept(streams) == streams

\* Manager::finalize, first statement under the guard: registered_streams.clear()
finalize_streams(streams) == {}

\* Manager::finalize leaves the options alone
finalize_options(opts) == opts

NoReg == [thread |-> NoThread, stream |-> 0, ret |-> "none", pre |-> {}]

NoRec == [thread |-> NoThread, event |-> "none", ptr |-> NullPtr]

\* what a running finalize() found: the options and the registration set
\* when it locked, and the number of records its logger.clear() dropped
NoFin == [options |-> DefaultOptions, streams |-> {}, logged |-> 0]

MgrInit ==
    /\ registered_streams = {}
    /\ options = DefaultOptions
    /\ streams_mutex = NoThread
    /\ log_mutex = NoThread
    /\ pc = [t \in Threads |-> "idle"]
    /\ reg = NoReg
    /\ rec = NoRec
    /\ fin = NoFin
    /\ finalized = FALSE

\* Manager::setOptions(o); by contract not concurrent with other calls
SetOptions(t, o) ==
    /\ \A u \in Threads : pc[u] = "idle"
    /\ options' = o
    /\ UNCHANGED <<registered_streams, streams_mutex, log_mutex, pc, reg, rec, fin, finalized>>
    /\ UNCHANGED <<flVars, orderVars, logVars, extVars>>

\* registerStream(s): lock_guard(streams_mutex) taken and the body run
RegisterStream(t, s) ==
    /\ pc[t] = "idle"
    /\ streams_mutex = NoThread
    /\ streams_mutex' = t
    /\ LET r == registerStream(registered_streams, s)
       IN  /\ registered_streams' = r.streams
           /\ reg' = [thread |-> t, stream |-> s, ret |-> r.ret, pre |-> registered_streams]
    /\ pc' = [pc EXCEPT ![t] = "reg_locked"]
    /\ UNCHANGED <<options, log_mutex, rec, fin, finalized>>
    /\ UNCHANGED <<flVars, orderVars, logVars, extVars>>

\* registerStream returns: the guard releases streams_mutex
RegisterStreamReturn(t) ==
    /\ pc[t] = "reg_locked"
    /\ streams_mutex' = NoThread
    /\ pc' = [pc EXCEPT ![t] = "idle"]
    /\ reg' = NoReg
    /\ UNCHANGED <<registered_streams, options, log_mutex, rec, fin, finalized>>
    /\ UNCHANGED <<flVars, orderVars, logVars, extVars>>

\* finalize(): lock_guard(streams_mutex) taken, registered_streams.clear()
FinalizeLock(t) ==
    /\ pc[t] = "idle"
    /\ streams_mutex = NoThread
    /\ streams_mutex' = t
    /\ registered_streams' = finalize_streams(registered_streams)
    /\ options' = finalize_options(options)
    /\ fin' = [options |-> options, streams |-> registered_streams, logged |-> 0]
    /\ pc' = [pc EXCEPT ![t] = "fin_clear"]
    /\ UNCHANGED <<log_mutex, reg, rec, finalized>>
    /\ UNCHANGED <<flVars, orderVars, logVars, extVars>>

\* finalize(): logger.clear() takes log_mutex, streams_mutex still held,
\* and clears the log
FinalizeLoggerClear(t) ==
    /\ pc[t] = "fin_clear"
    /\ log_mutex = NoThread
    /\ log_mutex' = t
    /\ LET l == logger_clear(TheLog)
       IN  /\ events' = l.events
           /\ current_allocations' = l.current_allocations
    /\ fin' = [fin EXCEPT !.logged = Len(events)]
    /\ pc' = [pc EXCEPT ![t] = "fin_log_locked"]
    /\ UNCHANGED <<registered_streams, options, streams_mutex, reg, rec, finalized>>
    /\ UNCHANGED <<flVars, orderVars, extVars>>

\* finalize() whose logger.clear() returns without releasing log_mutex
FinalizeLoggerReturn_lock_kept(t) ==
    /\ pc[t] = "fin_log_locked"
    /\ pc' = [pc EXCEPT ![t] = "fin_unlock"]
    /\ UNCHANGED <<registered_streams, options, streams_mutex, log_mutex, reg, rec, fin, finalized>>
    /\ UNCHANGED <<flVars, orderVars, logVars, extVars>>

\* finalize(): logger.clear() returns and releases log_mutex
FinalizeLoggerReturn(t) ==
    /\ pc[t] = "fin_log_locked"
    /\ log_mutex' = NoThread
    /\ pc' = [pc EXCEPT ![t] = "fin_unlock"]
    /\ UNCHANGED <<registered_streams, options, streams_mutex, reg, rec, fin, finalized>>
    /\ UNCHANGED <<flVars, orderVars, logVars, extVars>>

\* finalize() returns: the guard releases streams_mutex
FinalizeReturn(t) ==
    /\ pc[t] = "fin_unlock"
    /\ streams_mutex' = NoThread
    /\ pc' = [pc EXCEPT ![t] = "idle"]
    /\ finalized' = TRUE
    /\ fin' = NoFin
    /\ UNCHANGED <<registered_streams, options, log_mutex, reg, rec>>
    /\ UNCHANGED <<flVars, orderVars, logVars, extVars>>

\* getLogger().record(event, ptr, ...): log_mutex taken and the body run
Record(t, event, ptr) ==
    /\ pc[t] = "idle"
    /\ log_mutex = NoThread
    /\ Len(events) < MaxMgrEvents
    /\ log_mutex' = t
    /\ LET l == logger_record(TheLog, event, ptr)
       IN  /\ events' = l.events
           /\ current_allocations' = l.current_allocations
    /\ rec' = [thread |-> t, event |-> event, ptr |-> ptr]
    /\ pc' = [pc EXCEPT ![t] = "rec_locked"]
    /\ UNCHANGED <<registered_streams, options, streams_mutex, reg, fin, finalized>>
    /\ UNCHANGED <<flVars, orderVars, extVars>>

\* record returns and releases log_mutex
RecordReturn(t) ==
    /\ pc[t] = "rec_locked"
    /\ log_mutex' = NoThread
    /\ pc' = [pc EXCEPT ![t] = "idle"]
    /\ rec' = NoRec
    /\ UNCHANGED <<registered_streams, options, streams_mutex, reg, fin, finalized>>
    /\ UNCHANGED <<flVars, orderVars, logVars, extVars>>

\* getLogger().clear(): log_mutex taken and the log cleared
Clear(t) ==
    /\ pc[t] = "idle"
    /\ log_mutex = NoThread
    /\ log_mutex' = t
    /\ LET l == logger_clear(TheLog)
       IN  /\ events' = l.events
           /\ current_allocations' = l.current_allocations
    /\ pc' = [pc EXCEPT ![t] = "clr_locked"]
    /\ UNCHANGED <<registered_streams, options, streams_mutex, reg, rec, fin, finalized>>
    /\ UNCHANGED <<flVars, orderVars, extVars>>

\* clear returns and releases log_mutex
ClearReturn(t) ==
    /\ pc[t] = "clr_locked"
    /\ log_mutex' = NoThread
    /\ pc' = [pc EXCEPT ![t] = "idle"]
    /\ UNCHANGED <<registered_streams, options, streams_mutex, reg, rec, fin, finalized>>
    /\ UNCHANGED <<flVars, orderVars, logVars, extVars>>

\* Logger::to_csv: the header, then one row per record in insertion order
to_csv(evs) == <<"header">> \o evs

\* to_csv(csv) is called and waits for log_mutex
ToCsvCall(t) ==
    /\ pc[t] = "idle"
    /\ pc' = [pc EXCEPT ![t] = "csv_wait"]
    /\ UNCHANGED <<registered_streams, options, streams_mutex, log_mutex, reg, rec, fin, finalized>>
    /\ UNCHANGED <<flVars, orderVars, logVars, extVars>>

\* to_csv: log_mutex taken and the records written under it
ToCsvLock(t) ==
    /\ pc[t] = "csv_wait"
    /\ log_mutex = NoThread
    /\ log_mutex' = t
    /\ csv' = to_csv(events)
    /\ pc' = [pc EXCEPT ![t] = "csv_locked"]
    /\ UNCHANGED <<registered_streams, options, streams_mutex, reg, rec, fin, finalized>>
    /\ UNCHANGED <<flVars, orderVars, logVars, api, single, pool>>

\* to_csv returns and releases log_mutex
ToCsvReturn(t) ==
    /\ pc[t] = "csv_locked"
    /\ log_mutex' = NoThread
    /\ csv' = <<>>
    /\ pc' = [pc EXCEPT ![t] = "idle"]
    /\ UNCHANGED <<registered_streams, options, streams_mutex, reg, rec, fin, finalized>>
    /\ UNCHANGED <<flVars, orderVars, logVars, api, single, pool>>

MgrNext ==
    \/ \E t \in Threads, o \in OptionValues : SetOptions(t, o)
    \/ \E t \in Threads, s \in StreamHandles : RegisterStream(t, s)
    \/ \E t \in Threads : RegisterStreamReturn(t)
    \/ \E t \in Threads : FinalizeLock(t)
    \/ \E t \in Threads : FinalizeLoggerClear(t)
    \/ \E t \in Threads : FinalizeLoggerReturn(t)
    \/ \E t \in Threads : FinalizeReturn(t)
    \/ \E t \in Threads, e \in MemEvents, p \in Ptrs : Record(t, e, p)
    \/ \E t \in Threads : RecordReturn(t)
    \/ \E t \in Threads : Clear(t)
    \/ \E t \in Threads : ClearReturn(t)
    \/ \E t \in Threads : ToCsvCall(t)
    \/ \E t \in Threads : ToCsvLock(t)
    \/ \E t \in Threads : ToCsvReturn(t)

\* the operations that take a mutex, running concurrently with to_csv; the
\* locking does not depend on which pointer a record names
CsvNext ==
    \/ \E t \in Threads, s \in StreamHandles : RegisterStream(t, s)
    \/ \E t \in Threads : RegisterStreamReturn(t)
    \/ \E t \in Threads : FinalizeLock(t)
    \/ \E t \in Threads : FinalizeLoggerClear(t)
    \/ \E t \in Threads : FinalizeLoggerReturn(t)
    \/ \E t \in Threads : FinalizeReturn(t)
    \/ \E t \in Threads, e \in MemEvents : Record(t, e, 1)
    \/ \E t \in Threads : RecordReturn(t)
    \/ \E t \in Threads : Clear(t)
    \/ \E t \in Threads : ClearReturn(t)
    \/ \E t \in Threads : ToCsvCall(t)
    \/ \E t \in Threads : ToCsvLock(t)
    \/ \E t \in Threads : ToCsvReturn(t)

\* every holder of log_mutex is scheduled until it releases it, and a
\* to_csv waiting for log_mutex gets it if it is free again and again
MgrFairness ==
    \A t \in Threads :
        /\ WF_vars(FinalizeLoggerReturn(t))
        /\ WF_vars(RecordReturn(t))
        /\ WF_vars(ClearReturn(t))
        /\ WF_vars(ToCsvReturn(t))
        /\ SF_vars(ToCsvLock(t))

(***************************************************************************)
(* SpecLog: one caller of the Logger                                       *)
(***************************************************************************)
\* a whole record(event, ptr, ...) call
LogRecord(event, ptr) ==
    /\ Len(events) < MaxEvents
    /\ LET l == logger_record(TheLog, event, ptr)
       IN  /\ events' = l.events
           /\ current_allocations' = l.current_allocations
    /\ UNCHANGED <<flVars, orderVars, mgrVars, extVars>>

\* a whole clear() call
LogClear ==
    /\ LET l == logger_clear(TheLog)
       IN  /\ events' = l.events
           /\ current_allocations' = l.current_allocations
    /\ UNCHANGED <<flVars, orderVars, mgrVars, extVars>>

LogNext ==
    \/ \E e \in MemEvents, p \in Ptrs : LogRecord(e, p)
    \/ LogClear

(***************************************************************************)
(* Specifications                                                          *)
(***************************************************************************)
(***************************************************************************)
(* The C entry points of rmm.cpp, called one after the other               *)
(***************************************************************************)

\* rmmInitialize(0)
NullOptions == [allocation_mode |-> -1, managed_memory |-> FALSE, initial_pool_size |-> 0]

\* a cnmemStatus_t: the six enumerators and a value that is none of them
CnmemStatuses ==
    { "CNMEM_STATUS_SUCCESS", "CNMEM_STATUS_CUDA_ERROR",
      "CNMEM_STATUS_INVALID_ARGUMENT", "CNMEM_STATUS_NOT_INITIALIZED",
      "CNMEM_STATUS_OUT_OF_MEMORY", "CNMEM_STATUS_UNKNOWN_ERROR",
      "CNMEM_STATUS_UNRECOGNISED" }

CudaStatuses == { "cudaSuccess", "cudaErrorFailure" }

\* the macro did not return: the caller goes on
NoReturn == "no return"

\* RMM_CHECK_CNMEM whose default label falls out of the switch
rmm_check_cnmem_default_break(error) ==
    CASE error = "CNMEM_STATUS_SUCCESS" -> NoReturn
      [] error = "CNMEM_STATUS_CUDA_ERROR" -> "RMM_ERROR_CUDA_ERROR"
      [] error = "CNMEM_STATUS_INVALID_ARGUMENT" -> "RMM_ERROR_INVALID_ARGUMENT"
      [] error = "CNMEM_STATUS_NOT_INITIALIZED" -> "RMM_ERROR_NOT_INITIALIZED"
      [] error = "CNMEM_STATUS_OUT_OF_MEMORY" -> "RMM_ERROR_OUT_OF_MEMORY"
      [] error = "CNMEM_STATUS_UNKNOWN_ERROR" -> "RMM_ERROR_UNKNOWN"
      [] OTHER -> NoReturn

\* RMM_CHECK_CNMEM(call): the switch over the status
rmm_check_cnmem(error) ==
    CASE error = "CNMEM_STATUS_SUCCESS" -> NoReturn
      [] error = "CNMEM_STATUS_CUDA_ERROR" -> "RMM_ERROR_CUDA_ERROR"
      [] error = "CNMEM_STATUS_INVALID_ARGUMENT" -> "RMM_ERROR_INVALID_ARGUMENT"
      [] error = "CNMEM_STATUS_NOT_INITIALIZED" -> "RMM_ERROR_NOT_INITIALIZED"
      [] error = "CNMEM_STATUS_OUT_OF_MEMORY" -> "RMM_ERROR_OUT_OF_MEMORY"
      [] error = "CNMEM_STATUS_UNKNOWN_ERROR" -> "RMM_ERROR_UNKNOWN"
      [] OTHER -> "RMM_ERROR_UNKNOWN"

\* RMM_CHECK_CUDA(call): a failed CUDA call returns RMM_ERROR_CUDA_ERROR
rmm_check_cuda(error) ==
    IF error = "cudaSuccess" THEN NoReturn ELSE "RMM_ERROR_CUDA_ERROR"

\* RMM_CHECK(call): an rmmError_t other than RMM_SUCCESS is returned
rmm_check(error) ==
    IF error = "RMM_SUCCESS" THEN NoReturn ELSE error

\* allocation_mode & flag, for a flag that is one bit
BitSet(mode, flag) == (mode \div flag) % 2 = 1

setOptions(opts, o) == o

getOptions(opts) == opts

usePoolAllocator(opts) == BitSet(getOptions(opts).allocation_mode, PoolAllocation)

useManagedMemory(opts) == BitSet(getOptions(opts).allocation_mode, CudaManagedMemory)

useCudaDefaultAllocator(opts) == CudaDefaultAllocation = getOptions(opts).allocation_mode

\* rmmInitialize that falls back to the default configuration without options
rmmInitialize_null_resets(opts, o, cuda, cnmem) ==
    LET cur == IF o # NullOptions THEN setOptions(opts, o) ELSE DefaultOptions
        r1  == rmm_check_cuda(cuda)
        r2  == rmm_check_cnmem(cnmem)
    IN  [ options |-> cur,
          cnmem_called |-> usePoolAllocator(cur) /\ r1 = NoReturn,
          ret |-> IF ~usePoolAllocator(cur) THEN "RMM_SUCCESS"
                  ELSE IF r1 # NoReturn THEN r1
                  ELSE IF r2 # NoReturn THEN r2
                  ELSE "RMM_SUCCESS" ]

\* rmmInitialize(options), cudaGetDevice returning cuda and cnmemInit cnmem
rmmInitialize(opts, o, cuda, cnmem) ==
    LET cur == IF o # NullOptions THEN setOptions(opts, o) ELSE opts
        r1  == rmm_check_cuda(cuda)
        r2  == rmm_check_cnmem(cnmem)
    IN  [ options |-> cur,
          cnmem_called |-> usePoolAllocator(cur) /\ r1 = NoReturn,
          ret |-> IF ~usePoolAllocator(cur) THEN "RMM_SUCCESS"
                  ELSE IF r1 # NoReturn THEN r1
                  ELSE IF r2 # NoReturn THEN r2
                  ELSE "RMM_SUCCESS" ]

\* rmmFinalize that shuts the Manager down before it looks at the pool's status
rmmFinalize_clears_first(opts, streams, log, cnmem) ==
    LET r == rmm_check_cnmem(cnmem)
    IN  [ streams |-> finalize_streams(streams), log |-> logger_clear(log),
          cnmem_called |-> usePoolAllocator(opts),
          ret |-> IF usePoolAllocator(opts) /\ r # NoReturn THEN r ELSE "RMM_SUCCESS" ]

\* rmmFinalize(), cnmemFinalize returning cnmem
rmmFinalize(opts, streams, log, cnmem) ==
    LET r == rmm_check_cnmem(cnmem)
    IN  IF usePoolAllocator(opts) /\ r # NoReturn
        THEN [ streams |-> streams, log |-> log, cnmem_called |-> TRUE, ret |-> r ]
        ELSE [ streams |-> finalize_streams(streams), log |-> logger_clear(log),
               cnmem_called |-> usePoolAllocator(opts), ret |-> "RMM_SUCCESS" ]

\* rmmGetInfo that queries the pool whatever registerStream returned
rmmGetInfo_query_unregistered(opts, streams, stream, cuda, cnmem) ==
    IF usePoolAllocator(opts)
    THEN LET r  == registerStream(streams, stream)
             r2 == rmm_check_cnmem(cnmem)
         IN  [ streams |-> r.streams, registered |-> TRUE, cnmem_called |-> TRUE,
               ret |-> IF r2 # NoReturn THEN r2 ELSE "RMM_SUCCESS" ]
    ELSE LET r3 == rmm_check_cuda(cuda)
         IN  [ streams |-> streams, registered |-> FALSE, cnmem_called |-> FALSE,
               ret |-> IF r3 # NoReturn THEN r3 ELSE "RMM_SUCCESS" ]

\* rmmGetInfo(freeSize, totalSize, stream), cnmemMemGetInfo returning cnmem
\* and cudaMemGetInfo returning cuda
rmmGetInfo(opts, streams, stream, cuda, cnmem) ==
    IF usePoolAllocator(opts)
    THEN LET r  == registerStream(streams, stream)
             r1 == rmm_check(r.ret)
             r2 == rmm_check_cnmem(cnmem)
         IN  [ streams |-> r.streams, registered |-> TRUE,
               cnmem_called |-> r1 = NoReturn,
               ret |-> IF r1 # NoReturn THEN r1
                       ELSE IF r2 # NoReturn THEN r2
                       ELSE "RMM_SUCCESS" ]
    ELSE LET r3 == rmm_check_cuda(cuda)
         IN  [ streams |-> streams, registered |-> FALSE, cnmem_called |-> FALSE,
               ret |-> IF r3 # NoReturn THEN r3 ELSE "RMM_SUCCESS" ]

\* the last entry point called: its arguments, what the library calls under
\* it returned, what it returned, and the Manager's state before it
NoApi ==
    [ name |-> "none", options |-> NullOptions, stream |-> 0,
      cuda |-> "cudaSuccess", cnmem |-> "CNMEM_STATUS_SUCCESS",
      ret |-> "RMM_SUCCESS", registered |-> FALSE, cnmem_called |-> FALSE,
      pre_options |-> DefaultOptions, pre_streams |-> {},
      pre_log |-> logger_clear(TheLog) ]

ApiIdle == \A t \in Threads : pc[t] = "idle"

ApiSetOptions(o) ==
    /\ ApiIdle
    /\ options' = setOptions(options, o)
    /\ api' = [ NoApi EXCEPT !.name = "setOptions", !.options = o,
                             !.pre_options = options,
                             !.pre_streams = registered_streams,
                             !.pre_log = TheLog ]
    /\ UNCHANGED <<registered_streams, streams_mutex, log_mutex, pc, reg, rec, fin, finalized>>
    /\ UNCHANGED <<flVars, orderVars, logVars, csv, single, pool>>

RmmInitialize(o, cuda, cnmem) ==
    /\ ApiIdle
    /\ LET r == rmmInitialize(options, o, cuda, cnmem)
       IN  /\ options' = r.options
           /\ api' = [ NoApi EXCEPT !.name = "rmmInitialize", !.options = o,
                                    !.cuda = cuda, !.cnmem = cnmem,
                                    !.ret = r.ret,
                                    !.cnmem_called = r.cnmem_called,
                                    !.pre_options = options,
                                    !.pre_streams = registered_streams,
                                    !.pre_log = TheLog ]
    /\ UNCHANGED <<registered_streams, streams_mutex, log_mutex, pc, reg, rec, fin, finalized>>
    /\ UNCHANGED <<flVars, orderVars, logVars, csv, single, pool>>

RmmFinalize(cnmem) ==
    /\ ApiIdle
    /\ LET r == rmmFinalize(options, registered_streams, TheLog, cnmem)
       IN  /\ registered_streams' = r.streams
           /\ events' = r.log.events
           /\ current_allocations' = r.log.current_allocations
           /\ api' = [ NoApi EXCEPT !.name = "rmmFinalize", !.cnmem = cnmem,
                                    !.ret = r.ret,
                                    !.cnmem_called = r.cnmem_called,
                                    !.pre_options = options,
                                    !.pre_streams = registered_streams,
                                    !.pre_log = TheLog ]
    /\ UNCHANGED <<options, streams_mutex, log_mutex, pc, reg, rec, fin, finalized>>
    /\ UNCHANGED <<flVars, orderVars, csv, single, pool>>

RmmGetInfo(stream, cuda, cnmem) ==
    /\ ApiIdle
    /\ LET r == rmmGetInfo(options, registered_streams, stream, cuda, cnmem)
       IN  /\ registered_streams' = r.streams
           /\ api' = [ NoApi EXCEPT !.name = "rmmGetInfo", !.stream = stream,
                                    !.cuda = cuda, !.cnmem = cnmem,
                                    !.ret = r.ret,
                                    !.registered = r.registered,
                                    !.cnmem_called = r.cnmem_called,
                                    !.pre_options = options,
                                    !.pre_streams = registered_streams,
                                    !.pre_log = TheLog ]
    /\ UNCHANGED <<options, streams_mutex, log_mutex, pc, reg, rec, fin, finalized>>
    /\ UNCHANGED <<flVars, orderVars, logVars, csv, single, pool>>

\* an allocation entry point logs its event: getLogger().record(event, ptr, ...)
ApiRecord(event, ptr) ==
    /\ ApiIdle
    /\ Len(events) < MaxMgrEvents
    /\ LET l == logger_record(TheLog, event, ptr)
       IN  /\ events' = l.events
           /\ current_allocations' = l.current_allocations
    /\ api' = [ NoApi EXCEPT !.name = "record",
                             !.pre_options = options,
                             !.pre_streams = registered_streams,
                             !.pre_log = TheLog ]
    /\ UNCHANGED <<registered_streams, options, streams_mutex, log_mutex, pc, reg, rec, fin, finalized>>
    /\ UNCHANGED <<flVars, orderVars, csv, single, pool>>

\* shutting down a Manager that has streams registered and events logged;
\* the queries that register the streams are the ones the device answers
FinalizeNext ==
    \/ \E o \in OptionValues : ApiSetOptions(o)
    \/ \E s \in StreamHandles : RmmGetInfo(s, "cudaSuccess", "CNMEM_STATUS_SUCCESS")
    \/ \E e \in MemEvents, p \in Ptrs : ApiRecord(e, p)
    \/ \E cnmem \in CnmemStatuses : RmmFinalize(cnmem)

ApiNext ==
    \/ \E o \in OptionValues : ApiSetOptions(o)
    \/ \E o \in OptionValues \cup {NullOptions}, cuda \in CudaStatuses,
          cnmem \in CnmemStatuses : RmmInitialize(o, cuda, cnmem)
    \/ \E cnmem \in CnmemStatuses : RmmFinalize(cnmem)
    \/ \E s \in StreamHandles, cuda \in CudaStatuses, cnmem \in CnmemStatuses :
          RmmGetInfo(s, cuda, cnmem)


\* the free bytes: the sum of the entries' sizes
RECURSIVE TotalBytes(_)
TotalBytes(list) == IF list = <<>> THEN 0 ELSE Head(list).size + TotalBytes(Tail(list))

(***************************************************************************)
(* The pool allocator over one free_list and the device                    *)
(***************************************************************************)
MaxPoolOps == 5

\* the last address the device can hand out
DeviceEnd == 2 * MaxAddr

\* phase: whether the pool was initialised; top: the end of the address
\* range reserved from the device so far; grown: the regions requested from
\* the device after initialisation; live: the allocated blocks; hist: the
\* allocate and deallocate calls so far, each with the block it returned or
\* took and the pool's counters after it
NoPool == [phase |-> "none", top |-> 1, grown |-> 0, live |-> {}, hist |-> <<>>]

\* allocate(size): best_fit, the remainder of a larger block reinserted;
\* without a fit a new region of size + over bytes from the device, its
\* first size bytes returned and the overshoot inserted as a free block;
\* NoBlock when the device has no such region
pool_allocate(list, top, size, over) ==
    LET r == best_fit(list, size)
    IN  IF r.found # NoBlock
        THEN [ blk |-> [ptr |-> r.found.ptr, size |-> size],
               blocks |-> IF r.found.size > size
                          THEN insert(r.blocks, [ptr |-> r.found.ptr + size,
                                                 size |-> r.found.size - size])
                          ELSE r.blocks,
               top |-> top, grew |-> FALSE ]
        ELSE IF top + size + over <= DeviceEnd + 1
        THEN [ blk |-> [ptr |-> top, size |-> size],
               blocks |-> IF over > 0
                          THEN insert(list, [ptr |-> top + size, size |-> over])
                          ELSE list,
               top |-> top + size + over, grew |-> TRUE ]
        ELSE [ blk |-> NoBlock, blocks |-> list, top |-> top, grew |-> FALSE ]

\* deallocate(pointer, size): the block goes back into the free list
pool_deallocate(list, b) == insert(list, b)

\* the pool is set up with one free region of R bytes
PoolInit(R) ==
    /\ pool.phase = "none"
    /\ blocks = <<>>
    /\ blocks' = insert(blocks, [ptr |-> 1, size |-> R])
    /\ pool' = [pool EXCEPT !.phase = "ready", !.top = 1 + R]
    /\ UNCHANGED <<op, rt, zeroInserted>>
    /\ UNCHANGED <<orderVars, logVars, mgrVars, csv, api, single>>

PoolAllocate(size, over) ==
    /\ pool.phase = "ready"
    /\ Len(pool.hist) < MaxPoolOps
    /\ LET r == pool_allocate(blocks, pool.top, size, over)
           g == IF r.grew THEN pool.grown + 1 ELSE pool.grown
       IN  /\ blocks' = r.blocks
           /\ pool' = [pool EXCEPT
                  !.top = r.top,
                  !.grown = g,
                  !.live = IF r.blk # NoBlock THEN pool.live \cup {r.blk} ELSE pool.live,
                  !.hist = Append(pool.hist,
                      [ kind |-> IF r.blk # NoBlock THEN "allocate" ELSE "out of memory",
                        blk |-> r.blk, size |-> size, grown |-> g,
                        free |-> TotalBytes(r.blocks), total |-> r.top - 1 ]) ]
    /\ UNCHANGED <<op, rt, zeroInserted>>
    /\ UNCHANGED <<orderVars, logVars, mgrVars, csv, api, single>>

PoolDeallocate(b) ==
    /\ pool.phase = "ready"
    /\ Len(pool.hist) < MaxPoolOps
    /\ b \in pool.live
    /\ LET l == pool_deallocate(blocks, b)
       IN  /\ blocks' = l
           /\ pool' = [pool EXCEPT
                  !.live = pool.live \ {b},
                  !.hist = Append(pool.hist,
                      [ kind |-> "deallocate", blk |-> b, size |-> b.size,
                        grown |-> pool.grown, free |-> TotalBytes(l),
                        total |-> pool.top - 1 ]) ]
    /\ UNCHANGED <<op, rt, zeroInserted>>
    /\ UNCHANGED <<orderVars, logVars, mgrVars, csv, api, single>>

PoolNext ==
    \/ \E R \in 1..MaxAddr : PoolInit(R)
    \/ \E size \in 1..MaxReq, over \in 0..1 : PoolAllocate(size, over)
    \/ \E b \in pool.live : PoolDeallocate(b)


(***************************************************************************)
(* Manager::getInstance: the function-local static                         *)
(***************************************************************************)
\* a thread that has not returned from getInstance() yet
NotReturned == -1

\* the storage of the static before its constructor has run
Unconstructed == [allocation_mode |-> -2, managed_memory |-> FALSE, initial_pool_size |-> 0]

\* guard: the initialisation guard of the static ("uninit", "initializing",
\* "done"); constructions: how often Manager() has run; seen: per thread,
\* the number of constructor runs behind the instance it was handed
TheInstance ==
    [ guard |-> "done", constructions |-> 1, seen |-> [t \in Threads |-> NotReturned] ]

NoInstance ==
    [ guard |-> "uninit", constructions |-> 0, seen |-> [t \in Threads |-> NotReturned] ]

\* a thread calls getInstance()
GetInstanceCall(t) ==
    /\ pc[t] = "idle"
    /\ pc' = [pc EXCEPT ![t] = "gi_guard"]
    /\ UNCHANGED <<registered_streams, options, streams_mutex, log_mutex, reg, rec, fin, finalized>>
    /\ UNCHANGED <<flVars, orderVars, logVars, extVars>>

\* a static whose guard is tested without synchronisation: a thread that
\* finds the constructor running runs it as well
GetInstanceGuard_unsynchronised(t) ==
    /\ pc[t] = "gi_guard"
    /\ IF single.guard = "done"
       THEN /\ pc' = [pc EXCEPT ![t] = "gi_return"]
            /\ UNCHANGED single
       ELSE /\ single' = [single EXCEPT !.guard = "initializing"]
            /\ pc' = [pc EXCEPT ![t] = "gi_construct"]
    /\ UNCHANGED <<registered_streams, options, streams_mutex, log_mutex, reg, rec, fin, finalized>>
    /\ UNCHANGED <<flVars, orderVars, logVars, csv, api, pool>>

\* static Manager instance: the first thread to arrive takes the guard and
\* goes on to construct; a thread arriving while the constructor runs waits;
\* a thread arriving afterwards passes
GetInstanceGuard(t) ==
    /\ pc[t] = "gi_guard"
    /\ single.guard # "initializing"
    /\ IF single.guard = "done"
       THEN /\ pc' = [pc EXCEPT ![t] = "gi_return"]
            /\ UNCHANGED single
       ELSE /\ single' = [single EXCEPT !.guard = "initializing"]
            /\ pc' = [pc EXCEPT ![t] = "gi_construct"]
    /\ UNCHANGED <<registered_streams, options, streams_mutex, log_mutex, reg, rec, fin, finalized>>
    /\ UNCHANGED <<flVars, orderVars, logVars, csv, api, pool>>

\* Manager(): the default options are stored, then the guard is released
GetInstanceConstruct(t) ==
    /\ pc[t] = "gi_construct"
    /\ options' = DefaultOptions
    /\ registered_streams' = {}
    /\ single' = [single EXCEPT !.guard = "done",
                                !.constructions = single.constructions + 1]
    /\ pc' = [pc EXCEPT ![t] = "gi_return"]
    /\ UNCHANGED <<streams_mutex, log_mutex, reg, rec, fin, finalized>>
    /\ UNCHANGED <<flVars, orderVars, logVars, csv, api, pool>>

\* return instance
GetInstanceReturn(t) ==
    /\ pc[t] = "gi_return"
    /\ single' = [single EXCEPT !.seen[t] = single.constructions]
    /\ pc' = [pc EXCEPT ![t] = "gi_use"]
    /\ UNCHANGED <<registered_streams, options, streams_mutex, log_mutex, reg, rec, fin, finalized>>
    /\ UNCHANGED <<flVars, orderVars, logVars, csv, api, pool>>

\* the caller was setOptions: getInstance().options = o
UseSetOptions(t, o) ==
    /\ pc[t] = "gi_use"
    /\ options' = setOptions(options, o)
    /\ pc' = [pc EXCEPT ![t] = "idle"]
    /\ UNCHANGED <<registered_streams, streams_mutex, log_mutex, reg, rec, fin, finalized>>
    /\ UNCHANGED <<flVars, orderVars, logVars, extVars>>

\* the caller was getOptions: return getInstance().options
UseGetOptions(t) ==
    /\ pc[t] = "gi_use"
    /\ pc' = [pc EXCEPT ![t] = "idle"]
    /\ UNCHANGED <<registered_streams, options, streams_mutex, log_mutex, reg, rec, fin, finalized>>
    /\ UNCHANGED <<flVars, orderVars, logVars, extVars>>

SingletonNext ==
    \/ \E t \in Threads : GetInstanceCall(t)
    \/ \E t \in Threads : GetInstanceGuard(t)
    \/ \E t \in Threads : GetInstanceConstruct(t)
    \/ \E t \in Threads : GetInstanceReturn(t)
    \/ \E t \in Threads, o \in OptionValues : UseSetOptions(t, o)
    \/ \E t \in Threads : UseGetOptions(t)


\* no to_csv is running, no entry point was called, the Manager instance
\* exists, no pool is set up
ExtInit ==
    /\ csv = <<>>
    /\ api = NoApi
    /\ single = TheInstance
    /\ pool = NoPool

Init == FLInit /\ OrderIdle /\ LogInit /\ MgrInit /\ ExtInit

InitOrder == FLInit /\ OrderInit /\ LogInit /\ MgrInit /\ ExtInit

\* no thread has called getInstance() yet
InitSingleton ==
    /\ FLInit /\ OrderIdle /\ LogInit
    /\ registered_streams = {}
    /\ options = Unconstructed
    /\ streams_mutex = NoThread
    /\ log_mutex = NoThread
    /\ pc = [t \in Threads |-> "idle"]
    /\ reg = NoReg
    /\ rec = NoRec
    /\ fin = NoFin
    /\ finalized = FALSE
    /\ csv = <<>>
    /\ api = NoApi
    /\ single = NoInstance
    /\ pool = NoPool

SpecFL == Init /\ [][FLNext]_vars

SpecOrder == InitOrder /\ [][OrderNext]_vars

SpecLog == Init /\ [][LogNext]_vars

SpecMgr == Init /\ [][MgrNext]_vars

SpecSingleton == InitSingleton /\ [][SingletonNext]_vars

SpecPool == Init /\ [][PoolNext]_vars

SpecFinalize == Init /\ [][FinalizeNext]_vars

SpecApi == Init /\ [][ApiNext]_vars

SpecMgrFair == Init /\ [][CsvNext]_vars /\ MgrFairness

Next == FLNext \/ LogNext \/ MgrNext

Spec == Init /\ [][Next]_vars

(***************************************************************************)
(* Properties of the free list                                             *)
(***************************************************************************)
NoContiguous(list) ==
    \A i, j \in 1..Len(list) : i # j => ~is_contiguous_before(list[i], list[j])

\* C1 as stated (sizes any non-negative count): no two entries of the
\* registry are contiguous after insertions of non-overlapping blocks
C1_Original == NoContiguous(blocks)

\* C1: after insertions of mutually non-overlapping blocks of positive size
\* no two entries a, b of the registry satisfy a.is_contiguous_before(b)
C1_Coalesced == ~zeroInserted => NoContiguous(blocks)

\* an insert between two contiguous neighbours merged three blocks into one
C1_Witness ==
    /\ ~zeroInserted
    /\ op.name = "insert"
    /\ Len(op.pre) >= 2
    /\ Len(blocks) = Len(op.pre) - 1

\* C2 as stated: every order of inserting the same non-overlapping blocks
\* into an empty list ends in the same sequence of entries
C2_Original == (todoA = {} /\ todoB = {}) => flA = flB

\* C2: every order of inserting the same mutually non-overlapping blocks of
\* positive size into an empty list, one by one or as a range, ends in the
\* same sequence of (address, size) entries
C2_OrderIndependent ==
    (todoA = {} /\ todoB = {} /\ \A b \in input : b.size > 0) => flA = flB

\* three positive blocks, two of them contiguous, all inserted into both lists
C2_Witness ==
    /\ todoA = {} /\ todoB = {}
    /\ Cardinality(input) = 3
    /\ \A b \in input : b.size > 0
    /\ Len(flA) = 2

\* the entries of the list that can hold sz bytes
Fitting(list, sz) == { i \in 1..Len(list) : fits(list[i], sz) }

\* C3: when some entry fits, best_fit returns an entry of minimum size among
\* those that fit, and the registry afterwards is the previous one without
\* that entry, the others in the same order
C3_BestFitMinimal ==
    (op.name = "best_fit" /\ Fitting(op.pre, op.size) # {}) =>
        /\ fits(op.found, op.size)
        /\ \A i \in Fitting(op.pre, op.size) : op.found.size <= op.pre[i].size
        /\ \E k \in 1..Len(op.pre) :
              /\ op.pre[k] = op.found
              /\ blocks = SubSeq(op.pre, 1, k - 1) \o SubSeq(op.pre, k + 1, Len(op.pre))

\* best_fit passed over an earlier, larger entry that fits for a later,
\* smaller one
C3_Witness ==
    /\ op.name = "best_fit"
    /\ \E i, k \in 1..Len(op.pre) :
          /\ i < k
          /\ fits(op.pre[i], op.size)
          /\ op.pre[k] = op.found
          /\ op.pre[k].size < op.pre[i].size
          /\ op.size > 0

\* C4: when no entry fits (the empty registry included) best_fit returns the
\* sentinel and leaves the registry's entries and size() unchanged
C4_NoFitUnchanged ==
    (op.name = "best_fit" /\ Fitting(op.pre, op.size) = {}) =>
        /\ op.found = NoBlock
        /\ blocks = op.pre
        /\ Len(blocks) = Len(op.pre)

\* best_fit on a registry of two entries, both too small
C4_Witness ==
    /\ op.name = "best_fit"
    /\ Len(op.pre) >= 2
    /\ Fitting(op.pre, op.size) = {}
    /\ op.found = NoBlock

\* C5 as stated (any X): from a coalesced registry, best_fit(X) of a block of
\* size X+Y, Y > 0, then insert of the remainder, then insert of the prefix
\* restores the registry
C5_Original ==
    (rt.phase = 3 /\ NoContiguous(rt.saved)) =>
        (blocks = rt.saved /\ TotalBytes(blocks) = TotalBytes(rt.saved))

AllPositive(list) == \A i \in 1..Len(list) : list[i].size > 0

\* C5: from a coalesced registry of positive-size entries, the same round
\* trip with X > 0 restores exactly the pre-allocation registry: same block
\* boundaries and same total free bytes
C5_RoundTrip ==
    (rt.phase = 3 /\ rt.X > 0 /\ AllPositive(rt.saved) /\ NoContiguous(rt.saved)) =>
        (blocks = rt.saved /\ TotalBytes(blocks) = TotalBytes(rt.saved))

\* a round trip with X > 0 out of a registry of at least two entries is done
C5_Witness ==
    /\ rt.phase = 3
    /\ rt.X > 0
    /\ rt.blk.size > rt.X
    /\ AllPositive(rt.saved)
    /\ NoContiguous(rt.saved)
    /\ Len(rt.saved) >= 2

(***************************************************************************)
(* Properties of the Manager and the Logger                                *)
(***************************************************************************)
\* C6: no thread holds streams_mutex and log_mutex at the same time, in any
\* Manager operation, finalize() included
C6_NoNestedLocks ==
    \A t \in Threads : ~(streams_mutex = t /\ log_mutex = t)

\* C7: registerStream of a handle that is already registered returns
\* success and leaves the registration set as it was; the first
\* registerStream of a stream returns success and adds exactly that handle
C7_Idempotent ==
    reg.thread # NoThread =>
        /\ reg.stream \in reg.pre =>
              /\ reg.ret = "RMM_SUCCESS"
              /\ registered_streams = reg.pre
              /\ Cardinality(registered_streams) = Cardinality(reg.pre)
        /\ reg.stream \in ValidStreams \ reg.pre =>
              /\ reg.ret = "RMM_SUCCESS"
              /\ registered_streams = reg.pre \cup {reg.stream}

\* a second registerStream of a registered created stream has run
C7_Witness ==
    /\ reg.thread # NoThread
    /\ reg.stream \in reg.pre
    /\ reg.stream # 0
    /\ reg.ret = "RMM_SUCCESS"

\* C8: finalize() empties the registration set and the log (records and live
\* pointers) and leaves the options as they were; after a finalize() a
\* registerStream and a record succeed and show in the state
C8_Finalize ==
    /\ \A t \in Threads :
          pc[t] \in {"fin_clear", "fin_log_locked", "fin_unlock"} =>
              (registered_streams = {} /\ options = fin.options)
    /\ \A t \in Threads :
          pc[t] = "fin_log_locked" => (events = <<>> /\ current_allocations = {})
    /\ (finalized /\ reg.thread # NoThread /\ reg.stream \in ValidStreams) =>
          (reg.ret = "RMM_SUCCESS" /\ reg.stream \in registered_streams)
    /\ (finalized /\ rec.thread # NoThread) =>
          /\ events # <<>>
          /\ events[Len(events)].event = rec.event
          /\ events[Len(events)].ptr = rec.ptr
          /\ (rec.event # "Free" => rec.ptr \in current_allocations)

\* a second finalize() has just cleared a stream and a record that were
\* registered and recorded after the first one, under non-default options
C8_Witness ==
    /\ finalized
    /\ \E t \in Threads : pc[t] = "fin_log_locked"
    /\ fin.streams # {}
    /\ fin.logged > 0
    /\ fin.options # DefaultOptions

\* the number of records of the given kind
RECURSIVE CountEvents(_, _)
CountEvents(evs, kind) ==
    IF evs = <<>> THEN 0
    ELSE (IF Head(evs).event = kind THEN 1 ELSE 0) + CountEvents(Tail(evs), kind)

\* pointer p is live after the first i records: some Alloc/Realloc of p is
\* followed by no Free of p
LiveAfter(evs, i, p) ==
    \E j \in 1..i :
        /\ evs[j].ptr = p
        /\ evs[j].event \in {"Alloc", "Realloc"}
        /\ \A k \in (j + 1)..i : ~(evs[k].event = "Free" /\ evs[k].ptr = p)

OnlyAllocFree(evs) == \A i \in 1..Len(evs) : evs[i].event \in {"Alloc", "Free"}

\* every Free is of a pointer live at that time
FreesMatched(evs) ==
    \A i \in 1..Len(evs) : evs[i].event = "Free" => LiveAfter(evs, i - 1, evs[i].ptr)

\* every Alloc is of a pointer not live at that time
AllocsFresh(evs) ==
    \A i \in 1..Len(evs) : evs[i].event = "Alloc" => ~LiveAfter(evs, i - 1, evs[i].ptr)

LiveCountIs(n) ==
    /\ Cardinality(current_allocations) = n
    /\ events # <<>> => events[Len(events)].currentAllocations = n

\* C9 as stated: after N Alloc and M Free records, every Free matching a live
\* pointer, the live-allocation count is N - M
C9_Original ==
    (OnlyAllocFree(events) /\ FreesMatched(events)) =>
        LiveCountIs(CountEvents(events, "Alloc") - CountEvents(events, "Free"))

\* C9: after N Alloc and M Free records, every Alloc of a pointer that is not
\* live and every Free of a pointer that is, the live-allocation count (the
\* size of current_allocations, stored in the last record) is N - M
C9_LiveCount ==
    (OnlyAllocFree(events) /\ FreesMatched(events) /\ AllocsFresh(events)) =>
        LiveCountIs(CountEvents(events, "Alloc") - CountEvents(events, "Free"))

\* three Allocs and a Free interleaved, one pointer allocated again after
\* its Free
C9_Witness ==
    /\ OnlyAllocFree(events) /\ FreesMatched(events) /\ AllocsFresh(events)
    /\ CountEvents(events, "Alloc") = 3
    /\ CountEvents(events, "Free") = 1
    /\ events[Len(events)].event = "Alloc"

\* C10 as stated: the live count of successive records never decreases
C10_Original ==
    \A i \in 1..(Len(events) - 1) :
        events[i + 1].currentAllocations >= events[i].currentAllocations

\* C10: the live count of successive records never decreases across an Alloc
\* or Realloc record, never increases across a Free record, and drops by one
\* across a Free of a live pointer
C10_CountSteps ==
    \A i \in 1..(Len(events) - 1) :
        /\ events[i + 1].event \in {"Alloc", "Realloc"} =>
              events[i + 1].currentAllocations >= events[i].currentAllocations
        /\ events[i + 1].event = "Free" =>
              events[i + 1].currentAllocations <= events[i].currentAllocations
        /\ (events[i + 1].event = "Free" /\ LiveAfter(events, i, events[i + 1].ptr)) =>
              events[i + 1].currentAllocations = events[i].currentAllocations - 1

\* a log whose count goes up at an Alloc and a Realloc and down at a Free
C10_Witness ==
    /\ Len(events) >= 3
    /\ \E i \in 1..(Len(events) - 1) :
          /\ events[i + 1].event = "Free"
          /\ events[i + 1].currentAllocations < events[i].currentAllocations
    /\ \E i \in 1..(Len(events) - 1) :
          /\ events[i + 1].event = "Realloc"
          /\ events[i + 1].currentAllocations > events[i].currentAllocations

C12_RegisterBeforeQuery ==
    api.name = "rmmGetInfo" =>
        IF usePoolAllocator(api.pre_options)
        THEN /\ api.registered
             /\ api.cnmem_called => api.stream \in registered_streams
             /\ LET r == registerStream(api.pre_streams, api.stream).ret
                IN  r # "RMM_SUCCESS" => api.ret = r /\ ~api.cnmem_called
        ELSE /\ ~api.registered
             /\ ~api.cnmem_called
             /\ registered_streams = api.pre_streams

\* a pooled rmmGetInfo on a handle that is no stream returned the
\* registration's error
C12_Witness ==
    /\ api.name = "rmmGetInfo"
    /\ usePoolAllocator(api.pre_options)
    /\ api.stream \notin registered_streams
    /\ api.ret = "RMM_ERROR_INVALID_ARGUMENT"
    /\ api.cnmem = "CNMEM_STATUS_SUCCESS"

\* C15: RMM_CHECK_CNMEM lets success through, maps each error status to its
\* library error and anything else to Unknown; no failure becomes success
C15_CnmemMapping ==
    api.cnmem_called =>
        /\ api.cnmem = "CNMEM_STATUS_SUCCESS" => api.ret = "RMM_SUCCESS"
        /\ api.cnmem = "CNMEM_STATUS_CUDA_ERROR" => api.ret = "RMM_ERROR_CUDA_ERROR"
        /\ api.cnmem = "CNMEM_STATUS_INVALID_ARGUMENT"
               => api.ret = "RMM_ERROR_INVALID_ARGUMENT"
        /\ api.cnmem = "CNMEM_STATUS_NOT_INITIALIZED"
               => api.ret = "RMM_ERROR_NOT_INITIALIZED"
        /\ api.cnmem = "CNMEM_STATUS_OUT_OF_MEMORY"
               => api.ret = "RMM_ERROR_OUT_OF_MEMORY"
        /\ api.cnmem \in { "CNMEM_STATUS_UNKNOWN_ERROR", "CNMEM_STATUS_UNRECOGNISED" }
               => api.ret = "RMM_ERROR_UNKNOWN"
        /\ api.cnmem # "CNMEM_STATUS_SUCCESS" => api.ret # "RMM_SUCCESS"

\* a pool call returned a status that is no enumerator
C15_Witness ==
    /\ api.cnmem_called
    /\ api.cnmem = "CNMEM_STATUS_UNRECOGNISED"
    /\ api.ret = "RMM_ERROR_UNKNOWN"

\* C16: the Manager starts with the default configuration, under which only
\* useCudaDefaultAllocator() is true; getOptions() returns what setOptions
\* stored; rmmInitialize(0), like every call that sets no options, leaves
\* the configuration as it was
C16_Options ==
    /\ api.name = "none" =>
           /\ getOptions(options).allocation_mode = CudaDefaultAllocation
           /\ getOptions(options).managed_memory = FALSE
           /\ getOptions(options).initial_pool_size = 0
           /\ ~usePoolAllocator(options)
           /\ ~useManagedMemory(options)
           /\ useCudaDefaultAllocator(options)
    /\ api.name = "setOptions" => getOptions(options) = api.options
    /\ \/ api.name \in { "rmmGetInfo", "rmmFinalize" }
       \/ api.name = "rmmInitialize" /\ api.options = NullOptions
       => getOptions(options) = api.pre_options

\* rmmInitialize(0) was called on a configuration that is not the default
C16_Witness ==
    /\ api.name = "rmmInitialize"
    /\ api.options = NullOptions
    /\ api.pre_options # DefaultOptions
    /\ usePoolAllocator(options)

\* the pool's first five calls were allocate, allocate, allocate (blocks A,
\* B, C of one size), deallocate B, allocate of that size
ReuseScenario(h) ==
    /\ Len(h) >= 5
    /\ \A i \in {1, 2, 3, 5} : h[i].kind = "allocate" /\ h[i].size = h[1].size
    /\ h[4].kind = "deallocate"
    /\ h[4].blk = h[2].blk

\* C13 as stated (a free region of any size): the fourth allocation returns
\* B's address and size
C13_Original ==
    LET h == pool.hist
    IN  ReuseScenario(h) => h[5].blk = h[2].blk

\* C13: in a pool set up with one free region that serves A, B and C, the
\* fourth allocation returns B's block, no region is requested from the
\* device, and free and total bytes are what they were after the third
C13_ReuseFreed ==
    LET h == pool.hist
    IN  ReuseScenario(h) /\ h[3].grown = 0
        => /\ h[5].blk = h[2].blk
           /\ h[5].grown = h[4].grown
           /\ h[5].free = h[3].free
           /\ h[5].total = h[3].total

\* the scenario ran in a pool whose region still has free bytes behind C
C13_Witness ==
    LET h == pool.hist
    IN  /\ ReuseScenario(h)
        /\ h[3].grown = 0
        /\ h[3].free >= h[1].size

\* C14: however the first calls of getInstance() interleave, Manager() runs
\* at most once, every caller is handed the instance of that one run, and a
\* caller that has the instance finds it constructed
C14_ConstructedOnce ==
    /\ single.constructions <= 1
    /\ \A t \in Threads :
           /\ single.seen[t] \in {NotReturned, 1}
           /\ pc[t] \in {"gi_return", "gi_use"} =>
                  /\ single.guard = "done"
                  /\ single.constructions = 1
                  /\ options # Unconstructed

\* one thread constructs while another waits at the guard
C14_Witness ==
    \E t, u \in Threads :
        /\ pc[t] = "gi_construct"
        /\ pc[u] = "gi_guard"
        /\ single.guard = "initializing"
        /\ single.constructions = 0

\* the entries' addresses increase from begin() to end()
Ascending(list) == \A i \in 1..(Len(list) - 1) : block_less(list[i], list[i + 1])

NoOverlap(list) == \A i, j \in 1..Len(list) : i # j => ~Overlaps(list[i], list[j])

\* C17 as stated (sizes any non-negative count): after inserts of mutually
\* non-overlapping blocks, best_fit and erase, the entries are in ascending
\* address order and no two overlap
C17_Original == Ascending(blocks) /\ NoOverlap(blocks)

\* C17: after inserts of mutually non-overlapping blocks of positive size,
\* best_fit and erase, the entries are in ascending address order and no two
\* overlap
C17_Sorted == ~zeroInserted => Ascending(blocks) /\ NoOverlap(blocks)

\* a block of positive size went in between two entries it touches neither of
C17_Witness ==
    /\ ~zeroInserted
    /\ op.name = "insert"
    /\ Len(blocks) = Len(op.pre) + 1
    /\ Len(blocks) >= 3
    /\ blocks[2] = op.arg

\* the address-order successor of b: the first entry of the lowest address
\* above b's; 0 if there is none
SuccOf(list, b) ==
    LET above == { i \in 1..Len(list) : b.ptr < list[i].ptr }
    IN  IF above = {} THEN 0
        ELSE CHOOSE i \in above :
                \A j \in above : list[i].ptr < list[j].ptr
                                 \/ (list[i].ptr = list[j].ptr /\ i <= j)

\* the address-order predecessor of b: the last entry of the highest address
\* not above b's; 0 if there is none
PredOf(list, b) ==
    LET below == { i \in 1..Len(list) : ~(b.ptr < list[i].ptr) }
    IN  IF below = {} THEN 0
        ELSE CHOOSE i \in below :
                \A j \in below : list[j].ptr < list[i].ptr
                                 \/ (list[i].ptr = list[j].ptr /\ j <= i)

\* C18: insert(b) merges b with both address-order neighbours, with the
\* predecessor only, with the successor only, or adds it between them, as
\* each is contiguous with b or not; nothing else changes
C18_FourCases ==
    op.name = "insert" =>
        LET pre == op.pre
            b   == op.arg
            p   == PredOf(pre, b)
            n   == SuccOf(pre, b)
            cp  == p # 0 /\ is_contiguous_before(pre[p], b)
            cn  == n # 0 /\ is_contiguous_before(b, pre[n])
        IN  IF cp /\ cn
            THEN /\ Len(blocks) = Len(pre) - 1
                 /\ blocks = list_erase(
                        [pre EXCEPT ![p] = [ptr |-> pre[p].ptr,
                                            size |-> pre[n].ptr + pre[n].size - pre[p].ptr]],
                        n)
            ELSE IF cp
            THEN /\ Len(blocks) = Len(pre)
                 /\ blocks = [pre EXCEPT ![p] = [ptr |-> pre[p].ptr,
                                                 size |-> pre[p].size + b.size]]
            ELSE IF cn
            THEN /\ Len(blocks) = Len(pre)
                 /\ blocks = [pre EXCEPT ![n] = [ptr |-> b.ptr,
                                                 size |-> pre[n].ptr + pre[n].size - b.ptr]]
            ELSE /\ Len(blocks) = Len(pre) + 1
                 /\ blocks = SubSeq(pre, 1, p) \o <<b>> \o SubSeq(pre, p + 1, Len(pre))

\* a block contiguous with its successor only went in front of it, behind an
\* entry it does not touch
C18_Witness ==
    /\ op.name = "insert"
    /\ op.arg.size > 0
    /\ Len(op.pre) >= 2
    /\ Len(blocks) = Len(op.pre)
    /\ \E k \in 2..Len(blocks) :
          /\ blocks[k].ptr = op.arg.ptr
          /\ blocks[k].size > op.arg.size

\* C19: insert(b) adds b.size to the sum of the entries' sizes, a successful
\* best_fit takes the returned block's size off it, a failed one leaves it
C19_BytesConserved ==
    /\ op.name = "insert" => TotalBytes(blocks) = TotalBytes(op.pre) + op.arg.size
    /\ (op.name = "best_fit" /\ Fitting(op.pre, op.size) # {})
           => TotalBytes(blocks) = TotalBytes(op.pre) - op.found.size
    /\ (op.name = "best_fit" /\ Fitting(op.pre, op.size) = {})
           => TotalBytes(blocks) = TotalBytes(op.pre)

\* a three-way merge kept the bytes of all three blocks
C19_Witness ==
    /\ op.name = "insert"
    /\ op.arg.size > 0
    /\ Len(blocks) < Len(op.pre)
    /\ TotalBytes(blocks) = TotalBytes(op.pre) + op.arg.size

\* C20: among the entries of minimum fitting size best_fit returns the first
\* in list order, which has the lowest address
C20_FirstOfTies ==
    (op.name = "best_fit" /\ Fitting(op.pre, op.size) # {}) =>
        LET best == { i \in Fitting(op.pre, op.size) :
                        \A j \in Fitting(op.pre, op.size) :
                            op.pre[i].size <= op.pre[j].size }
            k    == CHOOSE i \in best : \A j \in best : i <= j
        IN  /\ op.found = op.pre[k]
            /\ blocks = list_erase(op.pre, k)
            /\ \A j \in best : op.found.ptr <= op.pre[j].ptr

\* two entries of the minimum fitting size, and the first was returned
C20_Witness ==
    /\ op.name = "best_fit"
    /\ op.size > 0
    /\ \E i, k \in 1..Len(op.pre) :
          /\ i < k
          /\ fits(op.pre[i], op.size)
          /\ op.pre[k].size = op.pre[i].size
          /\ op.pre[i].ptr < op.pre[k].ptr
          /\ op.found = op.pre[i]
          /\ \A j \in Fitting(op.pre, op.size) : op.pre[i].size <= op.pre[j].size

\* C21: in pooled mode rmmFinalize clears the stream set and the log only
\* if the pool's finalize succeeded; on an error it returns the mapped error
\* and leaves both as they were; in the other modes it always clears them
\* and returns success
C21_FinalizeOnSuccess ==
    api.name = "rmmFinalize" =>
        IF usePoolAllocator(api.pre_options) /\ api.cnmem # "CNMEM_STATUS_SUCCESS"
        THEN /\ api.ret = rmm_check_cnmem(api.cnmem)
             /\ api.ret # "RMM_SUCCESS"
             /\ registered_streams = api.pre_streams
             /\ TheLog = api.pre_log
        ELSE /\ api.ret = "RMM_SUCCESS"
             /\ registered_streams = {}
             /\ events = <<>>
             /\ current_allocations = {}

\* a pooled rmmFinalize whose pool finalize failed returned with a stream
\* still registered and an event still logged
C21_Witness ==
    /\ api.name = "rmmFinalize"
    /\ usePoolAllocator(api.pre_options)
    /\ api.ret = "RMM_ERROR_CUDA_ERROR"
    /\ registered_streams # {}
    /\ events # <<>>

====
